---- MODULE Spec2Model ----
(***************************************************************************)
(* Report lifecycle of the waste-reporting app (src/App.js): clients that  *)
(* sign in, set up a profile, and create / claim / prove / approve /       *)
(* reject reports held in a shared document store.  Every client acts on   *)
(* its own listener snapshot of the report collection, which may lag       *)
(* behind the store.                                                       *)
(***************************************************************************)
EXTENDS Integers, Sequences, FiniteSets, TLC

VARIABLES
    profiles,     \* store: user id -> profile document (domain = existing docs)
    reportDocs,   \* store: sequence of report documents, report id = index
    userId,       \* client state: useState(null)
    userProfile,  \* client state: undefined = loading, null = setup, object = ready
    userName,     \* client state: useState('')
    userRole,     \* client state: useState('')
    view,         \* client state: useState('reports')
    reports,      \* client state: last snapshot of the report collection, sorted
    listening,    \* client: the profile listener is attached and alive
    lastOp        \* the step just taken and the notifications it passed to alertUser

vars == <<profiles, reportDocs, userId, userProfile, userName, userRole, view,
          reports, listening, lastOp>>

----------------------------------------------------------------------------
(* Bounds *)

MaxReports == 1
MaxPoints == 80
MaxListed == 3

(* Program constants *)
DefaultReward == 10
PickerMultiplier == 3

Null == "null"
Clients == {"u1", "u2", "u3", "u4"}
Roles == {"reporter", "picker", "monitor"}
Views == {"reports", "setup", "reportNew"}

\* The anonymous uid the identity provider issues to a client.  The sign-in
\* is kept by the browser: "u1b" is a second tab of u1's browser and gets
\* u1's uid.
Uid(c) == IF c = "u1b" THEN "u1" ELSE c

\* Inputs of the setup form: the name typed and the role selected by a user.
NameInput(c) == CASE c = "u1" -> "Ria" [] c = "u2" -> "Pat" [] c = "u3" -> "Pim" [] OTHER -> "Mo"
RoleInput(c) == CASE c = "u1" -> "reporter" [] c \in {"u2", "u3"} -> "picker" [] OTHER -> "monitor"

Undefined == [tag |-> "undefined"]
NullProfile == [tag |-> "null"]
Truthy(p) == p # Undefined /\ p # NullProfile

Alert(title, type) == [title |-> title, type |-> type]
\* report is the report id the step was about, 0 when it was about none.
Op(name, c, r, alerts) == [op |-> name, client |-> c, report |-> r, alerts |-> alerts]

----------------------------------------------------------------------------
Init ==
    /\ profiles = << >>
    /\ reportDocs = << >>
    /\ userId = [c \in Clients |-> Null]
    /\ userProfile = [c \in Clients |-> Undefined]
    /\ userName = [c \in Clients |-> ""]
    /\ userRole = [c \in Clients |-> ""]
    /\ view = [c \in Clients |-> "reports"]
    /\ reports = [c \in Clients |-> << >>]
    /\ listening = [c \in Clients |-> FALSE]
    /\ lastOp = Op("init", Null, 0, << >>)

\* onAuthStateChanged after signInAnonymously on mount: setUserId(user.uid);
\* the profile effect then attaches the profile listener.
AuthStateChanged(c) ==
    /\ userId[c] = Null
    /\ userProfile[c] = Undefined
    /\ userId' = [userId EXCEPT ![c] = Uid(c)]
    /\ listening' = [listening EXCEPT ![c] = TRUE]
    /\ lastOp' = Op("auth", c, 0, << >>)
    /\ UNCHANGED <<profiles, reportDocs, userProfile, userName, userRole, view, reports>>

\* onAuthStateChanged with no user (the session was signed out or revoked
\* outside this handler): setUserId(null).  The profile effect detaches its
\* listener and attaches none; userProfile, view and reports are kept.
AuthStateSignedOut(c) ==
    /\ userId[c] # Null
    /\ userId' = [userId EXCEPT ![c] = Null]
    /\ listening' = [listening EXCEPT ![c] = FALSE]
    /\ lastOp' = Op("authSignedOut", c, 0, << >>)
    /\ UNCHANGED <<profiles, reportDocs, userProfile, userName, userRole, view, reports>>

----------------------------------------------------------------------------
(* What the App renders *)

\* if (view === 'setup' || userProfile === null) return <SetupForm />
SetupFormShown(c) == view[c] = "setup" \/ userProfile[c] = NullProfile
MainShown(c) == ~SetupFormShown(c)
\* {userProfile && <Navigation />}
NavigationShown(c) == MainShown(c) /\ Truthy(userProfile[c])
\* The entry of report r in the client's list: reports.map(r => <ReportItem
\* key={r.id} report={r} />)
Listed(c, r) == \E i \in DOMAIN reports[c] : reports[c][i].id = r
ReportOf(c, r) == reports[c][CHOOSE i \in DOMAIN reports[c] : reports[c][i].id = r].data
\* {view === 'reports' && <ReportsView />}: one ReportItem per snapshot entry
ItemShown(c, r) == MainShown(c) /\ view[c] = "reports" /\ Listed(c, r)

----------------------------------------------------------------------------
(* Listeners *)

\* onSnapshot(profileDocRef, docSnap => ...): the success callback.  The
\* reports effect clears the list whenever userProfile is not an object.
ProfileSnapshot(c) ==
    /\ userId[c] # Null
    /\ listening[c]
    /\ IF Uid(c) \in DOMAIN profiles
         THEN /\ userProfile' = [userProfile EXCEPT ![c] = profiles[Uid(c)]]
              /\ userName' = [userName EXCEPT ![c] = profiles[Uid(c)].name]
              /\ userRole' = [userRole EXCEPT ![c] = profiles[Uid(c)].role]
              /\ view' = [view EXCEPT ![c] = IF @ = "setup" THEN "reports" ELSE @]
              /\ UNCHANGED reports
         ELSE /\ userProfile' = [userProfile EXCEPT ![c] = NullProfile]
              /\ view' = [view EXCEPT ![c] = "setup"]
              /\ reports' = [reports EXCEPT ![c] = << >>]
              /\ UNCHANGED <<userName, userRole>>
    /\ lastOp' = Op("profileSnapshot", c, 0, << >>)
    /\ UNCHANGED <<profiles, reportDocs, userId, listening>>

\* onSnapshot(profileDocRef, ..., error => ...): both branches do the same.
\* The store ends a listener that has errored; the effect attaches a new one
\* only when userId or view changes.
ProfileListenerError(c) ==
    /\ userId[c] # Null
    /\ listening[c]
    /\ userProfile' = [userProfile EXCEPT ![c] = NullProfile]
    /\ view' = [view EXCEPT ![c] = "setup"]
    /\ reports' = [reports EXCEPT ![c] = << >>]
    /\ listening' = [listening EXCEPT ![c] = (view[c] # "setup")]
    /\ lastOp' = Op("profileError", c, 0, << >>)
    /\ UNCHANGED <<profiles, reportDocs, userId, userName, userRole>>

\* snapshot.docs.map(d => ({ id: d.id, ...d.data() }))
SnapshotDocs(docs) == [r \in DOMAIN docs |-> [id |-> r, data |-> docs[r]]]

\* a.reportedAt instanceof Timestamp ? a.reportedAt.toMillis()
\*                                   : (a.reportedAt || 0)
\* reportedAt is << >> when the document has none, <<t>> otherwise.
ReportedMillis(item) ==
    IF item.data.reportedAt = << >> THEN 0 ELSE item.data.reportedAt[1]

\* A comparator that orders by reportedAt ascending.
CompareReportsAscending(a, b) == ReportedMillis(a) - ReportedMillis(b)

\* (a, b) => tb - ta
CompareReports(a, b) == ReportedMillis(b) - ReportedMillis(a)

\* docs.sort(compare): Array.prototype.sort is stable.
RECURSIVE InsertSorted(_, _)
InsertSorted(x, sorted) ==
    IF sorted = << >> THEN <<x>>
    ELSE IF CompareReports(Head(sorted), x) <= 0
      THEN <<Head(sorted)>> \o InsertSorted(x, Tail(sorted))
      ELSE <<x>> \o sorted
RECURSIVE SortReports(_)
SortReports(list) ==
    IF list = << >> THEN << >>
    ELSE InsertSorted(list[Len(list)], SortReports(SubSeq(list, 1, Len(list) - 1)))

\* onSnapshot(q, snapshot => { docs.sort(...); setReports(docs) }), attached
\* only while userProfile is an object.
ReportsSnapshot(c) ==
    /\ Truthy(userProfile[c])
    /\ reports[c] # SortReports(SnapshotDocs(reportDocs))
    /\ reports' = [reports EXCEPT ![c] = SortReports(SnapshotDocs(reportDocs))]
    /\ lastOp' = Op("reportsSnapshot", c, 0, << >>)
    /\ UNCHANGED <<profiles, reportDocs, userId, userProfile, userName, userRole,
                   view, listening>>

----------------------------------------------------------------------------
(* Navigation *)

\* setView from the Navigation bar, the Report New button and the Back
\* buttons; a change of view re-attaches the profile listener.
SetView(c, v) ==
    /\ MainShown(c)
    /\ v # view[c]
    /\ \/ v = "reports"
       \/ /\ v = "reportNew"
          /\ view[c] = "reports"
          /\ Truthy(userProfile[c])
          /\ userProfile[c].role = "reporter"
    /\ view' = [view EXCEPT ![c] = v]
    /\ listening' = [listening EXCEPT ![c] = (userId[c] # Null)]
    /\ lastOp' = Op("setView", c, 0, << >>)
    /\ UNCHANGED <<profiles, reportDocs, userId, userProfile, userName, userRole, reports>>

----------------------------------------------------------------------------
(* Profile setup and logout *)

NewProfile(name, role, uid) ==
    [name |-> name, role |-> role, totalReporterPoints |-> 0,
     totalPickerPoints |-> 0, publicUserId |-> uid]

\* setDoc(profileDocRef, profileData): creates or overwrites the document.
SetDoc(docs, key, data) == (key :> data) @@ docs

\* A handleProfileSetup without its first line: with no user id the document
\* path is built from the text "null".
HandleProfileSetupUnguarded(c, name, role, ok) ==
    /\ SetupFormShown(c)
    /\ IF ok
         THEN /\ profiles' = SetDoc(profiles, userId[c], NewProfile(name, role, userId[c]))
              /\ lastOp' = Op("setup", c, 0, <<Alert("Setup Success!", "success")>>)
         ELSE /\ lastOp' = Op("setup", c, 0, <<Alert("Setup Failed", "error")>>)
              /\ UNCHANGED profiles
    /\ UNCHANGED <<reportDocs, userId, userProfile, userName, userRole, view,
                   reports, listening>>

\* SetupForm.submit -> handleProfileSetup(name, role); ok is the outcome of
\* the store write.
HandleProfileSetup(c, name, role, ok) ==
    /\ SetupFormShown(c)
    /\ IF userId[c] = Null
         THEN /\ lastOp' = Op("setup", c, 0, << >>)
              /\ UNCHANGED profiles
         ELSE IF ok
         THEN /\ profiles' = SetDoc(profiles, userId[c], NewProfile(name, role, userId[c]))
              /\ lastOp' = Op("setup", c, 0, <<Alert("Setup Success!", "success")>>)
         ELSE /\ lastOp' = Op("setup", c, 0, <<Alert("Setup Failed", "error")>>)
              /\ UNCHANGED profiles
    /\ UNCHANGED <<reportDocs, userId, userProfile, userName, userRole, view,
                   reports, listening>>

\* handleLogout: signOut, whose auth callback sets userId to null and
\* detaches the profile listener, then the four resets.
HandleLogout(c, ok) ==
    /\ NavigationShown(c)
    /\ IF ok
         THEN /\ userId' = [userId EXCEPT ![c] = Null]
              /\ listening' = [listening EXCEPT ![c] = FALSE]
              /\ userProfile' = [userProfile EXCEPT ![c] = NullProfile]
              /\ userName' = [userName EXCEPT ![c] = ""]
              /\ userRole' = [userRole EXCEPT ![c] = ""]
              /\ view' = [view EXCEPT ![c] = "setup"]
              /\ reports' = [reports EXCEPT ![c] = << >>]
              /\ lastOp' = Op("logout", c, 0, <<Alert("Signed Out", "info")>>)
         ELSE /\ lastOp' = Op("logout", c, 0, <<Alert("Logout Failed", "error")>>)
              /\ UNCHANGED <<userId, listening, userProfile, userName, userRole,
                             view, reports>>
    /\ UNCHANGED <<profiles, reportDocs>>

----------------------------------------------------------------------------
(* Report documents *)

\* A report created with the picker's reward already marked as issued.
NewReportFlagSet(uid, name, baseReward) ==
    [reporterId |-> uid, reporterName |-> name, baseReward |-> baseReward,
     status |-> "Reported", pickerId |-> Null, pickerName |-> Null,
     cleanupPhotoUrl |-> Null, reportedAt |-> <<Len(reportDocs) + 1>>,
     reporterRewardIssued |-> FALSE, pickerRewardIssued |-> TRUE,
     monitorId |-> Null, monitorName |-> Null, monitorMessage |-> Null]

NewReport(uid, name, baseReward) ==
    [reporterId |-> uid, reporterName |-> name, baseReward |-> baseReward,
     status |-> "Reported", pickerId |-> Null, pickerName |-> Null,
     cleanupPhotoUrl |-> Null, reportedAt |-> <<Len(reportDocs) + 1>>,
     reporterRewardIssued |-> FALSE, pickerRewardIssued |-> FALSE,
     monitorId |-> Null, monitorName |-> Null, monitorMessage |-> Null]

----------------------------------------------------------------------------
(* Advisory reward estimate.  Texts are sequences of characters. *)

Digits == {"0", "1", "2", "3", "4", "5", "6", "7", "8", "9"}
DigitValue(d) ==
    CASE d = "0" -> 0 [] d = "1" -> 1 [] d = "2" -> 2 [] d = "3" -> 3 [] d = "4" -> 4
      [] d = "5" -> 5 [] d = "6" -> 6 [] d = "7" -> 7 [] d = "8" -> 8 [] d = "9" -> 9

\* A JSON body without candidates[0].content.parts[0].text, and one whose
\* text is not a string.
Missing == <<"<undefined>">>
NotAString == <<"<number>">>

\* What the fetch of the proxy may end in: the network fails, the proxy
\* answers with an error status, the body is not JSON, or it is JSON.
Replies == { << >>, <<"n", "o">>, <<"0">>, <<"5">>, <<"1", "0">>, <<"-", "5">>,
             <<"~", "5", " ", "o", "r", " ", "8">>, Missing, NotAString }
ProxyOutcomes ==
    [kind : {"fetchFailed", "httpError", "badJson"}, text : {Missing}]
      \cup [kind : {"json"}, text : Replies]

NoJson == [kind |-> "null", text |-> Missing]

\* callGeminiProxy: null unless the response is ok and parses as JSON.
CallGeminiProxy(res) == IF res.kind = "json" THEN res ELSE NoJson

\* callGeminiForText: json?.candidates?.[0]?.content?.parts?.[0]?.text ?? ""
CallGeminiForText(res) ==
    LET json == CallGeminiProxy(res)
    IN  IF json = NoJson \/ json.text = Missing THEN << >> ELSE json.text

\* reply.match(/\d+/): the first maximal run of digits, << >> for null.
RECURSIVE TakeDigits(_)
TakeDigits(str) ==
    IF str = << >> \/ Head(str) \notin Digits THEN << >>
    ELSE <<Head(str)>> \o TakeDigits(Tail(str))
RECURSIVE MatchDigits(_)
MatchDigits(str) ==
    IF str = << >> THEN << >>
    ELSE IF Head(str) \in Digits THEN TakeDigits(str)
    ELSE MatchDigits(Tail(str))

\* parseInt(numeric[0], 10)
RECURSIVE ParseInt(_)
ParseInt(digits) ==
    IF digits = << >> THEN 0
    ELSE ParseInt(SubSeq(digits, 1, Len(digits) - 1)) * 10
           + DigitValue(digits[Len(digits)])

\* The literal of `numeric ? parseInt(numeric[0], 10) : 10`.
NoDigitsReward == 10

\* getRewardSuggestionRemote: the value returned, or threw when reply is not
\* a string and reply.match is not a function.
GetRewardSuggestionRemote(res) ==
    LET reply == CallGeminiForText(res)
    IN  IF reply = NotAString THEN [threw |-> TRUE, value |-> 0]
        ELSE LET numeric == MatchDigits(reply)
             IN  [threw |-> FALSE,
                  value |-> IF numeric # << >> THEN ParseInt(numeric)
                            ELSE NoDigitsReward]

\* Results of getRewardSuggestionRemote offered to handleReportSubmission.
SuggestedRewards == {GetRewardSuggestionRemote(res) : res \in ProxyOutcomes}

\* A fallback written with ?? in place of ||: a suggestion of 0 is kept.
ResolveRewardKeepsZero(suggestion) ==
    IF ~suggestion.threw THEN suggestion.value ELSE DefaultReward

\* let baseReward = 10; try { baseReward = await getRewardSuggestionRemote(...)
\* || baseReward } catch (e) { }
ResolveReward(suggestion) ==
    IF ~suggestion.threw /\ suggestion.value # 0 THEN suggestion.value ELSE DefaultReward

\* A handleReportSubmission without the try/catch around the estimate: its
\* exception reaches the handler's catch.
HandleReportSubmissionNoFallback(c, suggestion, ok) ==
    /\ MainShown(c)
    /\ view[c] = "reportNew"
    /\ Len(reportDocs) < MaxReports
    /\ IF userId[c] = Null \/ ~Truthy(userProfile[c])
         THEN /\ lastOp' = Op("create", c, 0, <<Alert("Submission Failed", "error")>>)
              /\ UNCHANGED reportDocs
         ELSE IF ok /\ ~suggestion.threw
         THEN /\ reportDocs' = Append(reportDocs,
                     NewReport(userId[c], userName[c], ResolveReward(suggestion)))
              /\ lastOp' = Op("create", c, 0, <<Alert("Report Submitted!", "success")>>)
         ELSE /\ lastOp' = Op("create", c, 0, <<Alert("Submission Failed", "error")>>)
              /\ UNCHANGED reportDocs
    /\ view' = [view EXCEPT ![c] = "reports"]
    /\ listening' = [listening EXCEPT ![c] = (userId[c] # Null)]
    /\ UNCHANGED <<profiles, userId, userProfile, userName, userRole, reports>>

\* handleReportSubmission, called by ReportNewForm.onSubmit, which then
\* returns to the reports view whatever the outcome.  ok is the outcome of
\* the image conversion and of addDoc.
HandleReportSubmission(c, suggestion, ok) ==
    /\ MainShown(c)
    /\ view[c] = "reportNew"
    /\ Len(reportDocs) < MaxReports
    /\ IF userId[c] = Null \/ ~Truthy(userProfile[c])
         THEN /\ lastOp' = Op("create", c, 0, <<Alert("Submission Failed", "error")>>)
              /\ UNCHANGED reportDocs
         ELSE IF ok
         THEN /\ reportDocs' = Append(reportDocs,
                     NewReport(userId[c], userName[c], ResolveReward(suggestion)))
              /\ lastOp' = Op("create", c, 0, <<Alert("Report Submitted!", "success")>>)
         ELSE /\ lastOp' = Op("create", c, 0, <<Alert("Submission Failed", "error")>>)
              /\ UNCHANGED reportDocs
    /\ view' = [view EXCEPT ![c] = "reports"]
    /\ listening' = [listening EXCEPT ![c] = (userId[c] # Null)]
    /\ UNCHANGED <<profiles, userId, userProfile, userName, userRole, reports>>

\* ReportItem: {userRole === 'picker' && isReported && <button>Claim Job}
ClaimShown(c, r) ==
    /\ ItemShown(c, r)
    /\ userRole[c] = "picker"
    /\ ReportOf(c, r).status = "Reported"

\* A claim that also discards the proof photo of an earlier round.
ClaimUpdateClearsProof(doc, uid, name) ==
    [doc EXCEPT !.status = "Claimed", !.pickerId = uid, !.pickerName = name,
                !.cleanupPhotoUrl = Null]

\* updateDoc(reportDocRef, { status: 'Claimed', pickerId: userId, pickerName: userName })
ClaimUpdate(doc, uid, name) ==
    [doc EXCEPT !.status = "Claimed", !.pickerId = uid, !.pickerName = name]

HandleClaimReport(c, r, ok) ==
    /\ ClaimShown(c, r)
    /\ IF userId[c] = Null \/ ~Truthy(userProfile[c])
         THEN /\ lastOp' = Op("claim", c, r, <<Alert("Claim Failed", "error")>>)
              /\ UNCHANGED reportDocs
         ELSE IF ok /\ r \in DOMAIN reportDocs
         THEN /\ reportDocs' = [reportDocs EXCEPT ![r] = ClaimUpdate(@, userId[c], userName[c])]
              /\ lastOp' = Op("claim", c, r, <<Alert("Report Claimed!", "success")>>)
         ELSE /\ lastOp' = Op("claim", c, r, <<Alert("Claim Failed", "error")>>)
              /\ UNCHANGED reportDocs
    /\ UNCHANGED <<profiles, userId, userProfile, userName, userRole, view,
                   reports, listening>>

\* ReportItem: {userRole === 'picker' && isClaimed && isPicker &&
\* !report.cleanupPhotoUrl && <button>Submit Proof}.  ReportItem is defined
\* inside App, so every App render remounts it and closes the proof form:
\* the form is open only while the snapshot it was opened on is displayed.
ProofShown(c, r) ==
    /\ ItemShown(c, r)
    /\ userRole[c] = "picker"
    /\ ReportOf(c, r).status = "Claimed"
    /\ ReportOf(c, r).pickerId = userId[c]
    /\ ReportOf(c, r).cleanupPhotoUrl = Null

\* updateDoc(reportDocRef, { status: 'Pending Review', cleanupPhotoUrl, ... })
ProofUpdate(doc) ==
    [doc EXCEPT !.status = "Pending Review", !.cleanupPhotoUrl = "photo"]

HandleSubmitProof(c, r, ok) ==
    /\ ProofShown(c, r)
    /\ IF userId[c] = Null \/ ~Truthy(userProfile[c])
         THEN /\ lastOp' = Op("proof", c, r, <<Alert("Submission Failed", "error")>>)
              /\ UNCHANGED reportDocs
         ELSE IF ok /\ r \in DOMAIN reportDocs
         THEN /\ reportDocs' = [reportDocs EXCEPT ![r] = ProofUpdate(@)]
              /\ lastOp' = Op("proof", c, r, <<Alert("Proof Submitted!", "info")>>)
         ELSE /\ lastOp' = Op("proof", c, r, <<Alert("Submission Failed", "error")>>)
              /\ UNCHANGED reportDocs
    /\ UNCHANGED <<profiles, userId, userProfile, userName, userRole, view,
                   reports, listening>>

----------------------------------------------------------------------------
(* Monitor decision: handleFinalApproval *)

\* ReportItem: {userRole === 'monitor' && isPending && <Approve> <Reject>}
DecisionShown(c, r) ==
    /\ ItemShown(c, r)
    /\ userRole[c] = "monitor"
    /\ ReportOf(c, r).status = "Pending Review"

\* const rewardReporter = report.baseReward || 10
RewardReporter(report) == IF report.baseReward # 0 THEN report.baseReward ELSE DefaultReward
\* const rewardPicker = rewardReporter * 3
RewardPicker(report) == RewardReporter(report) * PickerMultiplier

\* A store whose transactions accept a read after a buffered write.
TransactionGetAfterWrite(mutations) == FALSE

\* transaction.get(ref) inside runTransaction: the store's transaction
\* refuses a read once a write has been buffered ("transactions require
\* all reads to be executed before all writes") and the body throws.
TransactionGetThrows(mutations) == Len(mutations) > 0

\* rp.data()?.totalReporterPoints || 0 and pp.data()?.totalPickerPoints || 0
CurrentReporterPoints(profs, uid) ==
    IF uid \in DOMAIN profs THEN profs[uid].totalReporterPoints ELSE 0
CurrentPickerPoints(profs, uid) ==
    IF uid \in DOMAIN profs THEN profs[uid].totalPickerPoints ELSE 0

ApproveUpdate(doc, uid, name, report) ==
    [doc EXCEPT !.status = "Completed", !.monitorId = uid, !.monitorName = name,
                !.reporterRewardIssued = TRUE, !.pickerRewardIssued = TRUE,
                !.monitorMessage = "Thank you for cleaning."]

\* A rejection that leaves the picker assigned.
RejectUpdateKeepsPicker(doc, uid, name) ==
    [doc EXCEPT !.status = "Rejected", !.monitorId = uid, !.monitorName = name,
                !.monitorMessage = "Proof rejected. Please resubmit."]

RejectUpdate(doc, uid, name) ==
    [doc EXCEPT !.status = "Rejected", !.monitorId = uid, !.monitorName = name,
                !.monitorMessage = "Proof rejected. Please resubmit.",
                !.pickerId = Null, !.pickerName = Null]

\* One call of the transaction object: transaction.get or transaction.update
\* on the report, the reporter profile or the picker profile.
Call(method, target) == [method |-> method, target |-> target]

\* The body of the approve branch, in program order: write the report,
\* read and write the reporter profile, read and write the picker profile,
\* alert.  docs and profs are the store with the writes buffered so far;
\* threw says that a read threw and ended the body there; calls are the
\* calls the body issued up to its end.
ApproveBody(c, r, report, docs, profs) ==
    LET docs1 == IF r \in DOMAIN docs
                   THEN [docs EXCEPT ![r] = ApproveUpdate(@, userId[c], userName[c], report)]
                   ELSE docs
        m1 == <<"report">>
        threw1 == TransactionGetThrows(m1)
        rpPoints == CurrentReporterPoints(profs, report.reporterId)
        profs1 == IF report.reporterId \in DOMAIN profs
                    THEN [profs EXCEPT ![report.reporterId].totalReporterPoints =
                              rpPoints + RewardReporter(report)]
                    ELSE profs
        m2 == Append(m1, "reporterProfile")
        threw2 == TransactionGetThrows(m2)
        ppPoints == CurrentPickerPoints(profs, report.pickerId)
        profs2 == IF report.pickerId \in DOMAIN profs1
                    THEN [profs1 EXCEPT ![report.pickerId].totalPickerPoints =
                              ppPoints + RewardPicker(report)]
                    ELSE profs1
        exist == /\ r \in DOMAIN docs
                 /\ report.reporterId \in DOMAIN profs
                 /\ report.pickerId \in DOMAIN profs
        c1 == <<Call("update", "report"), Call("get", "reporterProfile")>>
        c2 == c1 \o <<Call("update", "reporterProfile"), Call("get", "pickerProfile")>>
        c3 == Append(c2, Call("update", "pickerProfile"))
    IN  IF threw1
          THEN [threw |-> TRUE, targetsExist |-> exist, docs |-> docs1,
                profs |-> profs, alerts |-> << >>, calls |-> c1]
        ELSE IF threw2
          THEN [threw |-> TRUE, targetsExist |-> exist, docs |-> docs1,
                profs |-> profs1, alerts |-> << >>, calls |-> c2]
          ELSE [threw |-> FALSE, targetsExist |-> exist, docs |-> docs1,
                profs |-> profs2,
                alerts |-> <<Alert("Report Approved", "success")>>, calls |-> c3]

\* The body of the reject branch: one buffered write, then the alert.
RejectBody(c, r, report, docs, profs) ==
    [threw |-> FALSE,
     targetsExist |-> r \in DOMAIN docs,
     docs |-> IF r \in DOMAIN docs
                THEN [docs EXCEPT ![r] = RejectUpdate(@, userId[c], userName[c])]
                ELSE docs,
     profs |-> profs,
     alerts |-> <<Alert("Report Rejected", "error")>>,
     calls |-> <<Call("update", "report")>>]

\* A runner that applies the report write although the transaction failed.
RunTransactionNoRollback(body, ok) ==
    IF ~body.threw /\ ok /\ body.targetsExist
      THEN [committed |-> TRUE, docs |-> body.docs, profs |-> body.profs,
            alerts |-> body.alerts]
      ELSE [committed |-> FALSE, docs |-> body.docs, profs |-> profiles,
            alerts |-> Append(body.alerts, Alert("Approval Failed", "error"))]

\* runTransaction(db, body): the buffered writes are applied together when
\* the body returns and the commit succeeds (ok, and every updated document
\* exists); otherwise nothing is applied and the handler's catch alerts.
RunTransaction(body, ok) ==
    IF ~body.threw /\ ok /\ body.targetsExist
      THEN [committed |-> TRUE, docs |-> body.docs, profs |-> body.profs,
            alerts |-> body.alerts]
      ELSE [committed |-> FALSE, docs |-> reportDocs, profs |-> profiles,
            alerts |-> Append(body.alerts, Alert("Approval Failed", "error"))]

PointsBelowCap ==
    \A u \in DOMAIN profiles :
        /\ profiles[u].totalReporterPoints <= MaxPoints
        /\ profiles[u].totalPickerPoints <= MaxPoints

HandleFinalApproval(c, r, approvalType, ok) ==
    /\ DecisionShown(c, r)
    /\ PointsBelowCap
    /\ IF userRole[c] # "monitor" \/ ~Truthy(userProfile[c])
         THEN /\ lastOp' = Op(approvalType, c, r, << >>)
              /\ UNCHANGED <<reportDocs, profiles>>
         ELSE LET report == ReportOf(c, r)
                  body == IF approvalType = "approve"
                            THEN ApproveBody(c, r, report, reportDocs, profiles)
                            ELSE RejectBody(c, r, report, reportDocs, profiles)
                  res == RunTransaction(body, ok)
              IN  /\ reportDocs' = res.docs
                  /\ profiles' = res.profs
                  /\ lastOp' = Op(approvalType, c, r, res.alerts)
    /\ UNCHANGED <<userId, userProfile, userName, userRole, view, reports, listening>>

----------------------------------------------------------------------------
ReportIds == 1..MaxReports

Next ==
    \/ \E c \in Clients : AuthStateChanged(c)
    \/ \E c \in Clients : ProfileSnapshot(c)
    \/ \E c \in Clients : ProfileListenerError(c)
    \/ \E c \in Clients : ReportsSnapshot(c)
    \/ \E c \in Clients, v \in Views : SetView(c, v)
    \/ \E c \in Clients, ok \in BOOLEAN :
          HandleProfileSetup(c, NameInput(c), RoleInput(c), ok)
    \/ \E c \in Clients, ok \in BOOLEAN : HandleLogout(c, ok)
    \/ \E c \in Clients, s \in SuggestedRewards, ok \in BOOLEAN :
          HandleReportSubmission(c, s, ok)
    \/ \E c \in Clients, r \in ReportIds, ok \in BOOLEAN : HandleClaimReport(c, r, ok)
    \/ \E c \in Clients, r \in ReportIds, ok \in BOOLEAN : HandleSubmitProof(c, r, ok)
    \/ \E c \in Clients, r \in ReportIds, t \in {"approve", "reject"}, ok \in BOOLEAN :
          HandleFinalApproval(c, r, t, ok)

Spec == Init /\ [][Next]_vars

----------------------------------------------------------------------------
(* The dashboard once every client has signed in, set up its profile and   *)
(* received it: the state in which reports are worked on.                  *)

ReadyProfile(c) == NewProfile(NameInput(c), RoleInput(c), Uid(c))

InitReady ==
    /\ profiles = [u \in {Uid(c) : c \in Clients} |->
                      ReadyProfile(CHOOSE c \in Clients : Uid(c) = u)]
    /\ reportDocs = << >>
    /\ userId = [c \in Clients |-> Uid(c)]
    /\ userProfile = [c \in Clients |-> ReadyProfile(c)]
    /\ userName = [c \in Clients |-> NameInput(c)]
    /\ userRole = [c \in Clients |-> RoleInput(c)]
    /\ view = [c \in Clients |-> "reports"]
    /\ reports = [c \in Clients |-> << >>]
    /\ listening = [c \in Clients |-> TRUE]
    /\ lastOp = Op("init", Null, 0, << >>)

NextFlow ==
    \/ \E c \in Clients : ReportsSnapshot(c)
    \/ \E c \in Clients, v \in Views : SetView(c, v)
    \/ \E c \in Clients, s \in SuggestedRewards, ok \in BOOLEAN :
          HandleReportSubmission(c, s, ok)
    \/ \E c \in Clients, r \in ReportIds, ok \in BOOLEAN : HandleClaimReport(c, r, ok)
    \/ \E c \in Clients, r \in ReportIds, ok \in BOOLEAN : HandleSubmitProof(c, r, ok)
    \/ \E c \in Clients, r \in ReportIds, t \in {"approve", "reject"}, ok \in BOOLEAN :
          HandleFinalApproval(c, r, t, ok)

SpecFlow == InitReady /\ [][NextFlow]_vars

----------------------------------------------------------------------------
(* The same dashboard with the second picker's browser never opened, and   *)
(* the failures of a session added: lost profile listener, repeated setup, *)
(* logout.                                                                 *)

Opened == Clients \ {"u3"}

InitLedger ==
    /\ profiles = [u \in {Uid(c) : c \in Opened} |->
                      ReadyProfile(CHOOSE c \in Opened : Uid(c) = u)]
    /\ reportDocs = << >>
    /\ userId = [c \in Clients |-> IF c \in Opened THEN Uid(c) ELSE Null]
    /\ userProfile = [c \in Clients |-> IF c \in Opened THEN ReadyProfile(c) ELSE Undefined]
    /\ userName = [c \in Clients |-> IF c \in Opened THEN NameInput(c) ELSE ""]
    /\ userRole = [c \in Clients |-> IF c \in Opened THEN RoleInput(c) ELSE ""]
    /\ view = [c \in Clients |-> "reports"]
    /\ reports = [c \in Clients |-> << >>]
    /\ listening = [c \in Clients |-> c \in Opened]
    /\ lastOp = Op("init", Null, 0, << >>)

NextLedger ==
    \/ \E c \in Clients : ProfileSnapshot(c)
    \/ \E c \in Clients : ProfileListenerError(c)
    \/ \E c \in Clients, ok \in BOOLEAN :
          HandleProfileSetup(c, NameInput(c), RoleInput(c), ok)
    \/ \E c \in Clients, ok \in BOOLEAN : HandleLogout(c, ok)
    \/ NextFlow

SpecLedger == InitLedger /\ [][NextLedger]_vars

----------------------------------------------------------------------------
(* The three browsers a report needs -- its reporter, one picker and the   *)
(* monitor -- working on the reports with no session failure.              *)

SpecCrew == InitLedger /\ [][NextFlow]_vars

----------------------------------------------------------------------------
(* Two browsers from their first load: sign-in, the profile listener, the  *)
(* setup form with whatever name and role the user enters, navigation and  *)
(* logout.  No report is worked on.                                        *)

Newcomers == {"u1", "u4"}
\* The names a user may type in the setup form; the select offers Roles.
NameInputs(c) == {NameInput(c), "Zed"}

NextBootstrap ==
    \/ \E c \in Newcomers : AuthStateChanged(c)
    \/ \E c \in Newcomers : ProfileSnapshot(c)
    \/ \E c \in Newcomers : ProfileListenerError(c)
    \/ \E c \in Newcomers, v \in Views : SetView(c, v)
    \/ \E c \in Newcomers : \E name \in NameInputs(c), role \in Roles, ok \in BOOLEAN :
          HandleProfileSetup(c, name, role, ok)
    \/ \E c \in Newcomers, ok \in BOOLEAN : HandleLogout(c, ok)

SpecBootstrap == Init /\ [][NextBootstrap]_vars

----------------------------------------------------------------------------
(* The reporter's browser with the dashboard open in two tabs, which share *)
(* one sign-in and one profile: reports are filed while a tab is signed    *)
(* out, loses its profile listener, or sets the profile up again with any  *)
(* role.  Nobody works on the reports filed.                               *)

Tabs == {"u1", "u1b"}

InitIntake ==
    /\ profiles = [u \in {Uid(c) : c \in Tabs} |-> ReadyProfile("u1")]
    /\ reportDocs = << >>
    /\ userId = [c \in Tabs |-> Uid(c)]
    /\ userProfile = [c \in Tabs |-> ReadyProfile("u1")]
    /\ userName = [c \in Tabs |-> NameInput("u1")]
    /\ userRole = [c \in Tabs |-> RoleInput("u1")]
    /\ view = [c \in Tabs |-> "reports"]
    /\ reports = [c \in Tabs |-> << >>]
    /\ listening = [c \in Tabs |-> TRUE]
    /\ lastOp = Op("init", Null, 0, << >>)

NextIntake ==
    \/ \E c \in Tabs : AuthStateSignedOut(c)
    \/ \E c \in Tabs : ProfileSnapshot(c)
    \/ \E c \in Tabs : ProfileListenerError(c)
    \/ \E c \in Tabs : ReportsSnapshot(c)
    \/ \E c \in Tabs, v \in Views : SetView(c, v)
    \/ \E c \in Tabs, role \in Roles, ok \in BOOLEAN :
          HandleProfileSetup(c, NameInput("u1"), role, ok)
    \/ \E c \in Tabs, ok \in BOOLEAN : HandleLogout(c, ok)
    \/ \E c \in Tabs, s \in SuggestedRewards, ok \in BOOLEAN :
          HandleReportSubmission(c, s, ok)

SpecIntake == InitIntake /\ [][NextIntake]_vars

----------------------------------------------------------------------------
(* The dashboard opened on a store that already holds reports, filed at    *)
(* any time and some written without reportedAt; the picker claims them    *)
(* and the clients follow through their reports listeners.                 *)

ReportTimes == {<< >>, <<1>>, <<2>>}
StoredReport(t) ==
    [reporterId |-> Uid("u1"), reporterName |-> NameInput("u1"),
     baseReward |-> DefaultReward,
     status |-> "Reported", pickerId |-> Null, pickerName |-> Null,
     cleanupPhotoUrl |-> Null, reportedAt |-> t,
     reporterRewardIssued |-> FALSE, pickerRewardIssued |-> FALSE,
     monitorId |-> Null, monitorName |-> Null, monitorMessage |-> Null]

InitListing ==
    /\ profiles = [u \in {Uid(c) : c \in Opened} |->
                      ReadyProfile(CHOOSE c \in Opened : Uid(c) = u)]
    /\ reportDocs \in UNION {[1..n -> {StoredReport(t) : t \in ReportTimes}] :
                              n \in 0..MaxListed}
    /\ userId = [c \in Clients |-> IF c \in Opened THEN Uid(c) ELSE Null]
    /\ userProfile = [c \in Clients |-> IF c \in Opened THEN ReadyProfile(c) ELSE Undefined]
    /\ userName = [c \in Clients |-> IF c \in Opened THEN NameInput(c) ELSE ""]
    /\ userRole = [c \in Clients |-> IF c \in Opened THEN RoleInput(c) ELSE ""]
    /\ view = [c \in Clients |-> "reports"]
    /\ reports = [c \in Clients |-> << >>]
    /\ listening = [c \in Clients |-> c \in Opened]
    /\ lastOp = Op("init", Null, 0, << >>)

\* The browsers in use: the reporter's and the picker's.
Viewers == {"u1", "u2"}

NextListing ==
    \/ \E c \in Viewers : ReportsSnapshot(c)
    \/ \E c \in Viewers, r \in 1..MaxListed, ok \in BOOLEAN : HandleClaimReport(c, r, ok)

SpecListing == InitListing /\ [][NextListing]_vars

----------------------------------------------------------------------------
(* Vocabulary of the properties *)

LastAlert(op) == IF op.alerts = << >> THEN Alert("", "") ELSE op.alerts[Len(op.alerts)]
IsDecision(op) == op.op \in {"approve", "reject"}
\* The step labelled op ran a transaction of handleFinalApproval.
DecisionRan(op) == IsDecision(op) /\ op.alerts # << >>
DecisionAborted(op) == DecisionRan(op) /\ LastAlert(op).title = "Approval Failed"
DecisionCommitted(op) == DecisionRan(op) /\ LastAlert(op).title # "Approval Failed"

RECURSIVE SumOver(_, _)
SumOver(f, S) ==
    IF S = {} THEN 0
    ELSE LET x == CHOOSE y \in S : TRUE IN f[x] + SumOver(f, S \ {x})

TotalReporterPoints ==
    SumOver([u \in DOMAIN profiles |-> profiles[u].totalReporterPoints], DOMAIN profiles)
TotalPickerPoints ==
    SumOver([u \in DOMAIN profiles |-> profiles[u].totalPickerPoints], DOMAIN profiles)
TotalReporterRewards ==
    SumOver([r \in DOMAIN reportDocs |-> RewardReporter(reportDocs[r])], DOMAIN reportDocs)
TotalPickerRewards ==
    SumOver([r \in DOMAIN reportDocs |-> RewardPicker(reportDocs[r])], DOMAIN reportDocs)

AllowedStatusChanges ==
    { <<"Reported", "Claimed">>, <<"Claimed", "Pending Review">>,
      <<"Pending Review", "Completed">>, <<"Pending Review", "Rejected">>,
      <<"Rejected", "Claimed">> }

----------------------------------------------------------------------------
(* C1: every change of a report's stored status is one of Reported->Claimed, *)
(* Claimed->Pending Review, Pending Review->Completed, Pending Review->      *)
(* Rejected, Rejected->Claimed, also when clients act on stale snapshots.    *)
C1_StatusFollowsTable ==
    [][\A r \in DOMAIN reportDocs :
          reportDocs'[r].status # reportDocs[r].status
            => <<reportDocs[r].status, reportDocs'[r].status>> \in AllowedStatusChanges]_vars

(* C2: settlement is all-or-nothing.  A step in which the approval          *)
(* transaction aborts changes neither the reports nor the profiles, and no  *)
(* Completed report lacks the reporter's or the picker's credit.            *)
CompletedIsCredited ==
    \A r \in DOMAIN reportDocs :
        reportDocs[r].status = "Completed" =>
            /\ reportDocs[r].reporterRewardIssued
            /\ reportDocs[r].pickerRewardIssued
            /\ TotalReporterPoints >= RewardReporter(reportDocs[r])
            /\ TotalPickerPoints >= RewardPicker(reportDocs[r])

C2_SettlementAllOrNothing ==
    /\ []CompletedIsCredited
    /\ [][(lastOp'.op = "approve" /\ DecisionAborted(lastOp'))
             => (reportDocs' = reportDocs /\ profiles' = profiles)]_vars

\* An approval of a report that is Pending Review in the store has aborted.
C2_Witness ==
    /\ lastOp.op = "approve"
    /\ DecisionAborted(lastOp)
    /\ reportDocs[lastOp.report].status = "Pending Review"
    /\ reportDocs[lastOp.report].reporterId \in DOMAIN profiles
    /\ reportDocs[lastOp.report].pickerId \in DOMAIN profiles

C4_ApproveSettles ==
    [][\A c \in Clients, r \in DOMAIN reportDocs :
          ( /\ HandleFinalApproval(c, r, "approve", TRUE)
            /\ userRole[c] = "monitor" /\ Truthy(userProfile[c])
            /\ reportDocs[r].status = "Pending Review"
            /\ reportDocs[r] = ReportOf(c, r)
            /\ reportDocs[r].reporterId \in DOMAIN profiles
            /\ reportDocs[r].pickerId \in DOMAIN profiles )
          => LET rep == reportDocs[r].reporterId
                 pic == reportDocs[r].pickerId
             IN  /\ reportDocs'[r].status = "Completed"
                 /\ reportDocs'[r].reporterRewardIssued
                 /\ reportDocs'[r].pickerRewardIssued
                 /\ profiles'[rep].totalReporterPoints =
                        profiles[rep].totalReporterPoints + RewardReporter(reportDocs[r])
                 /\ profiles'[pic].totalPickerPoints =
                        profiles[pic].totalPickerPoints + RewardPicker(reportDocs[r])]_vars

(* C5: monitor decisions are mutually exclusive and final.  A decision      *)
(* commits only on a report that is Pending Review in the store, and the    *)
(* status of a Completed report never changes again.                        *)
C5_DecisionsExclusive ==
    [][/\ DecisionCommitted(lastOp')
            => reportDocs[lastOp'.report].status = "Pending Review"
       /\ \A r \in DOMAIN reportDocs :
            reportDocs[r].status = "Completed" => reportDocs'[r].status = "Completed"]_vars

(* C6: both reward-issued flags of a report are false when it is created    *)
(* and stay false until an approval commits for it; a flag that is true     *)
(* stays true.                                                              *)
C6_FlagsFalseUntilApproval ==
    [][\A r \in DOMAIN reportDocs' :
          IF r \in DOMAIN reportDocs
            THEN /\ reportDocs[r].reporterRewardIssued => reportDocs'[r].reporterRewardIssued
                 /\ reportDocs[r].pickerRewardIssued => reportDocs'[r].pickerRewardIssued
                 /\ ( \/ reportDocs'[r].reporterRewardIssued # reportDocs[r].reporterRewardIssued
                      \/ reportDocs'[r].pickerRewardIssued # reportDocs[r].pickerRewardIssued )
                    => ( lastOp'.op = "approve" /\ lastOp'.report = r
                         /\ DecisionCommitted(lastOp') )
            ELSE /\ ~reportDocs'[r].reporterRewardIssued
                 /\ ~reportDocs'[r].pickerRewardIssued]_vars

\* A report that went through claim, proof and a committed rejection, and
\* on which an approval was then attempted, still has both flags false.
C6_Witness ==
    /\ lastOp.op = "approve"
    /\ DecisionRan(lastOp)
    /\ reportDocs[lastOp.report].status = "Rejected"
    /\ ~reportDocs[lastOp.report].reporterRewardIssued
    /\ ~reportDocs[lastOp.report].pickerRewardIssued

(* C7: an operation outside the transition table (a claim on a report that  *)
(* is not Reported in the store, a proof for a report that is not Claimed   *)
(* by the actor, a decision on a report that is not Pending Review) leaves  *)
(* reports and profiles unchanged and ends with an error notification.      *)
OutsideTable(op) ==
    /\ op.report \in DOMAIN reportDocs
    /\ \/ op.op = "claim" /\ reportDocs[op.report].status # "Reported"
       \/ /\ op.op = "proof"
          /\ \/ reportDocs[op.report].status # "Claimed"
             \/ reportDocs[op.report].pickerId # userId[op.client]
       \/ IsDecision(op) /\ reportDocs[op.report].status # "Pending Review"

C7_OutsideTableRefused ==
    [][OutsideTable(lastOp')
          => /\ reportDocs' = reportDocs
             /\ profiles' = profiles
             /\ LastAlert(lastOp').type = "error"]_vars

(* C8: a committed rejection writes status Rejected, pickerId null,         *)
(* pickerName null and the monitor message in one step, so that no state    *)
(* shows a Rejected report with a picker, and it changes no profile and no  *)
(* reward-issued flag.                                                      *)
RejectedHasNoPicker ==
    \A r \in DOMAIN reportDocs :
        reportDocs[r].status = "Rejected" =>
            /\ reportDocs[r].pickerId = Null
            /\ reportDocs[r].pickerName = Null
            /\ reportDocs[r].monitorMessage = "Proof rejected. Please resubmit."

C8_RejectionAtomic ==
    /\ []RejectedHasNoPicker
    /\ [][(lastOp'.op = "reject" /\ DecisionCommitted(lastOp'))
            => LET r == lastOp'.report
               IN  /\ reportDocs'[r].status = "Rejected"
                   /\ reportDocs'[r].pickerId = Null
                   /\ reportDocs'[r].pickerName = Null
                   /\ reportDocs'[r].monitorMessage = "Proof rejected. Please resubmit."
                   /\ reportDocs'[r].reporterRewardIssued = reportDocs[r].reporterRewardIssued
                   /\ reportDocs'[r].pickerRewardIssued = reportDocs[r].pickerRewardIssued
                   /\ profiles' = profiles]_vars

\* A rejection of a report that had a picker has committed.
C8_Witness ==
    /\ lastOp.op = "reject"
    /\ DecisionCommitted(lastOp)
    /\ reportDocs[lastOp.report].status = "Rejected"
    /\ reportDocs[lastOp.report].cleanupPhotoUrl # Null
    /\ \E c \in Clients :
          /\ Listed(c, lastOp.report)
          /\ ReportOf(c, lastOp.report).pickerId # Null

(* C9: once a report is Rejected with no picker, a picker other than the    *)
(* one whose proof was rejected, looking at the current state of the        *)
(* report, is offered the claim.                                            *)
C9_RejectedIsClaimable ==
    \A c \in Clients, r \in DOMAIN reportDocs :
        ( /\ reportDocs[r].status = "Rejected"
          /\ reportDocs[r].pickerId = Null
          /\ userRole[c] = "picker" /\ Truthy(userProfile[c]) /\ userId[c] # Null
          /\ view[c] = "reports"
          /\ reports[c] = SortReports(SnapshotDocs(reportDocs))
          /\ \E o \in Clients \ {c} :
                /\ Listed(o, r)
                /\ ReportOf(o, r).pickerId = userId[o]
                /\ ReportOf(o, r).status = "Claimed" )
        => ClaimShown(c, r)

(* C10: the point totals of every profile are non-negative and never        *)
(* decrease, whatever happens (approvals, rejections, claims, profile       *)
(* setup, logout), and only a committed approval changes them.              *)
PointsNonNegative ==
    \A u \in DOMAIN profiles :
        profiles[u].totalReporterPoints >= 0 /\ profiles[u].totalPickerPoints >= 0

C11_ProfileCreatedOnce ==
    [][lastOp'.op = "setup" =>
          \A u \in DOMAIN profiles :
              /\ u \in DOMAIN profiles'
              /\ profiles'[u].name = profiles[u].name
              /\ profiles'[u].role = profiles[u].role
              /\ profiles'[u].totalReporterPoints = profiles[u].totalReporterPoints
              /\ profiles'[u].totalPickerPoints = profiles[u].totalPickerPoints]_vars

(* C14: a claim takes effect only on a report whose stored status is        *)
(* Reported when the write is applied.  A claim that reaches the store      *)
(* after another picker's claim leaves pickerId and pickerName as they are  *)
(* and is notified to its picker as a failure.                              *)
C14_ClaimOnlyOnReported ==
    [][\A r \in DOMAIN reportDocs :
          ( /\ lastOp'.op = "claim"
            /\ lastOp'.report = r
            /\ reportDocs[r].status # "Reported" )
          => /\ reportDocs'[r].pickerId = reportDocs[r].pickerId
             /\ reportDocs'[r].pickerName = reportDocs[r].pickerName
             /\ reportDocs'[r].status = reportDocs[r].status
             /\ LastAlert(lastOp').type = "error"]_vars

(* C15: a proof submission is applied only when, at the time of the write,  *)
(* the stored status is Claimed, the stored pickerId is the submitting user *)
(* and no cleanup photo is stored.                                          *)
C15_ProofOnlyByAssignedPicker ==
    [][\A r \in DOMAIN reportDocs :
          ( /\ lastOp'.op = "proof"
            /\ lastOp'.report = r
            /\ LastAlert(lastOp').title = "Proof Submitted!" )
          => /\ reportDocs[r].status = "Claimed"
             /\ reportDocs[r].pickerId = userId[lastOp'.client]
             /\ reportDocs[r].cleanupPhotoUrl = Null]_vars

(* C16: a report is added only by handleReportSubmission of a user whose    *)
(* loaded profile has role reporter; it adds exactly one report, Reported,  *)
(* with no picker, both reward flags false and the acting user as reporter. *)
(* When the user id or the profile is missing, no report is added and one   *)
(* failure notification is shown.                                           *)
C16_ReportCreation ==
    [][LET c == lastOp'.client IN
       /\ reportDocs' # reportDocs =>
             /\ lastOp'.op = "create"
             /\ userId[c] # Null
             /\ Truthy(userProfile[c])
             /\ userProfile[c].role = "reporter"
             /\ Len(reportDocs') = Len(reportDocs) + 1
             /\ SubSeq(reportDocs', 1, Len(reportDocs)) = reportDocs
             /\ LET new == reportDocs'[Len(reportDocs')] IN
                  /\ new.status = "Reported"
                  /\ new.pickerId = Null
                  /\ new.pickerName = Null
                  /\ ~new.reporterRewardIssued
                  /\ ~new.pickerRewardIssued
                  /\ new.reporterId = userId[c]
       /\ ( /\ lastOp'.op = "create"
            /\ (userId[c] = Null \/ ~Truthy(userProfile[c])) )
          => /\ reportDocs' = reportDocs
             /\ Len(lastOp'.alerts) = 1
             /\ LastAlert(lastOp').type = "error"]_vars

(* C17: when the advisory estimate fails (network error, proxy error,       *)
(* malformed or empty reply) or its text has no digit, a submission the     *)
(* store accepts still adds the report, with baseReward 10, and shows no    *)
(* error notification.                                                      *)
AdvisoryFailures ==
    {res \in ProxyOutcomes :
        \/ res.kind # "json"
        \/ res.text \in {Missing, NotAString}
        \/ \A i \in 1..Len(res.text) : res.text[i] \notin Digits}

C17_AdvisoryFallback ==
    [][\A c \in Clients, res \in AdvisoryFailures :
          ( /\ HandleReportSubmission(c, GetRewardSuggestionRemote(res), TRUE)
            /\ userId[c] # Null
            /\ Truthy(userProfile[c]) )
          => /\ Len(reportDocs') = Len(reportDocs) + 1
             /\ reportDocs'[Len(reportDocs')].baseReward = 10
             /\ \A i \in 1..Len(lastOp'.alerts) : lastOp'.alerts[i].type # "error"]_vars

\* A report has just been added with the fallback reward.
C17_Witness ==
    /\ lastOp.op = "create"
    /\ LastAlert(lastOp).title = "Report Submitted!"
    /\ reportDocs[Len(reportDocs)].baseReward = 10

(* C18: every engine operation (profile setup, create, claim, submit proof, *)
(* approve, reject, logout) that fails or is refused passes exactly one     *)
(* notification to alertUser, of type error; in particular none returns     *)
(* silently and a failed approval does not also announce 'Report Approved'. *)
EngineOps == {"setup", "create", "claim", "proof", "approve", "reject", "logout"}
SuccessTitles == {"Setup Success!", "Report Submitted!", "Report Claimed!",
                  "Proof Submitted!", "Report Approved", "Report Rejected",
                  "Signed Out"}
OperationFailed(op) ==
    /\ op.op \in EngineOps
    /\ \/ op.alerts = << >>
       \/ LastAlert(op).title \notin SuccessTitles

C18_OneErrorNotification ==
    [][OperationFailed(lastOp')
          => /\ Len(lastOp'.alerts) = 1
             /\ lastOp'.alerts[1].type = "error"]_vars

(* C19: profile bootstrap routes by the outcome of the profile read.  A     *)
(* snapshot of an existing profile sets userProfile to the document and     *)
(* shows the dashboard; an absent profile and a failed read both set        *)
(* userProfile to null and show the setup form; and the three outcomes are  *)
(* told apart by the client state they produce, so a failed read does not   *)
(* leave the client in the state the snapshot of an absent profile would.   *)
BootstrapRouted ==
    [][\A c \in Clients :
          /\ ( /\ lastOp'.op = "profileSnapshot" /\ lastOp'.client = c
               /\ Uid(c) \in DOMAIN profiles )
             => /\ userProfile'[c] = profiles[Uid(c)]
                /\ ~(view'[c] = "setup" \/ userProfile'[c] = NullProfile)
          /\ ( /\ lastOp'.op = "profileSnapshot" /\ lastOp'.client = c
               /\ Uid(c) \notin DOMAIN profiles )
             => /\ userProfile'[c] = NullProfile
                /\ view'[c] = "setup"
          /\ (lastOp'.op = "profileError" /\ lastOp'.client = c)
             => /\ userProfile'[c] = NullProfile
                /\ view'[c] = "setup"]_vars

C19_OutcomesDistinguished ==
    /\ BootstrapRouted
    /\ [][\A c \in Clients :
            (lastOp'.op = "profileError" /\ lastOp'.client = c)
            => ~( /\ userProfile'[c] = NullProfile
                  /\ view'[c] = "setup"
                  /\ reports'[c] = << >>
                  /\ userName'[c] = userName[c]
                  /\ userRole'[c] = userRole[c] )]_vars

(* C20: after every snapshot of the report collection the client's list     *)
(* holds exactly the documents of the snapshot, each once, ordered by       *)
(* reportedAt descending with a missing reportedAt counted as 0, so that    *)
(* reports without one come after every report with a positive timestamp.   *)
MillisOf(doc) == IF doc.reportedAt = << >> THEN 0 ELSE doc.reportedAt[1]

C20_ListSortedByReportedAt ==
    [][\A c \in Clients :
          (lastOp'.op = "reportsSnapshot" /\ lastOp'.client = c)
          => LET list == reports'[c] IN
             /\ Len(list) = Len(reportDocs)
             /\ \A r \in DOMAIN reportDocs :
                   \E i \in DOMAIN list :
                       /\ list[i].id = r
                       /\ list[i].data = reportDocs[r]
                       /\ \A j \in DOMAIN list : list[j].id = r => j = i
             /\ \A i, j \in DOMAIN list :
                   i < j => MillisOf(list[i].data) >= MillisOf(list[j].data)
             /\ \A i, j \in DOMAIN list :
                   (list[i].data.reportedAt = << >> /\ MillisOf(list[j].data) > 0)
                   => j < i]_vars

\* A client has received a snapshot whose documents were not in list order:
\* one has no reportedAt and precedes, in the store, two with different
\* timestamps of which the later comes last.
C20_Witness ==
    /\ lastOp.op = "reportsSnapshot"
    /\ Len(reportDocs) = 3
    /\ reportDocs[1].reportedAt = << >>
    /\ reportDocs[2].reportedAt = <<1>>
    /\ reportDocs[3].reportedAt = <<2>>
    /\ reports[lastOp.client] # << >>
    /\ reports[lastOp.client][1].id = 3

(* C21: a rejected report can go through the cycle again: claim by a        *)
(* picker, proof by that picker, approval.  Rejection never leaves a report *)
(* in a state from which no picker can submit proof: whenever the stored    *)
(* status is Rejected, there is a picker whose claim would give a report    *)
(* that passes the Submit Proof guard (Claimed, assigned to that picker, no *)
(* cleanup photo).                                                          *)
C21_RejectedCanCycle ==
    \A r \in DOMAIN reportDocs :
        reportDocs[r].status = "Rejected"
        => \E c \in Clients :
              /\ userRole[c] = "picker"
              /\ LET doc == ClaimUpdate(reportDocs[r], userId[c], userName[c])
                 IN  /\ doc.status = "Claimed"
                     /\ doc.pickerId = userId[c]
                     /\ doc.cleanupPhotoUrl = Null

(* C22: reporterId, reporterName and baseReward of a report never change    *)
(* after creation: every step (claim, proof submission, approval, rejection *)
(* included) leaves them as they were, and a claim additionally leaves      *)
(* cleanupPhotoUrl and both reward-issued flags as they were.               *)
CreationFieldsKept(old, new) ==
    /\ new.reporterId = old.reporterId
    /\ new.reporterName = old.reporterName
    /\ new.baseReward = old.baseReward

ProofAndFlagsKept(old, new) ==
    /\ new.cleanupPhotoUrl = old.cleanupPhotoUrl
    /\ new.reporterRewardIssued = old.reporterRewardIssued
    /\ new.pickerRewardIssued = old.pickerRewardIssued

C22_CreationFieldsFrozen ==
    [][\A r \in DOMAIN reportDocs :
          /\ r \in DOMAIN reportDocs'
          /\ CreationFieldsKept(reportDocs[r], reportDocs'[r])
          /\ (lastOp'.op = "claim" => ProofAndFlagsKept(reportDocs[r], reportDocs'[r]))]_vars

\* A claim was written onto a report that already carried a proof photo.
C22_Witness ==
    /\ lastOp.op = "claim"
    /\ LastAlert(lastOp).title = "Report Claimed!"
    /\ lastOp.report \in DOMAIN reportDocs
    /\ reportDocs[lastOp.report].status = "Claimed"
    /\ reportDocs[lastOp.report].cleanupPhotoUrl # Null

(* C23: inside the approval transaction every document read happens before  *)
(* the first write: in the calls the approve body issues, no                *)
(* transaction.get comes after a transaction.update.                        *)
ReadsPrecedeWrites(calls) ==
    \A i, j \in 1..Len(calls) :
        calls[i].method = "update" /\ calls[j].method = "get" => j < i

C23_ReadsBeforeWrites ==
    [][DecisionRan(lastOp') /\ lastOp'.op = "approve"
         => ReadsPrecedeWrites(
                ApproveBody(lastOp'.client, lastOp'.report,
                            ReportOf(lastOp'.client, lastOp'.report),
                            reportDocs, profiles).calls)]_vars

(* C25: the baseReward stored in every created report is a positive integer *)
(* (at least 1): an advisory reply whose first digit run parses to 0 is     *)
(* replaced by the default 10, and a reply with a leading minus sign        *)
(* contributes only its digits.                                             *)
JsonReply(text) == [kind |-> "json", text |-> text]

C25_BaseRewardPositive ==
    /\ \A r \in DOMAIN reportDocs :
          /\ reportDocs[r].baseReward \in Nat
          /\ reportDocs[r].baseReward >= 1
    /\ \A res \in ProxyOutcomes :
          LET reply == CallGeminiForText(res)
              suggestion == GetRewardSuggestionRemote(res)
          IN  /\ ResolveReward(suggestion) >= 1
              /\ (reply # NotAString /\ MatchDigits(reply) # << >>
                    /\ ParseInt(MatchDigits(reply)) = 0)
                 => ResolveReward(suggestion) = DefaultReward
    /\ ResolveReward(GetRewardSuggestionRemote(JsonReply(<<"-", "5">>))) = 5

\* A submission stored a report that carries the default reward.
C25_Witness ==
    /\ lastOp.op = "create"
    /\ LastAlert(lastOp).title = "Report Submitted!"
    /\ \E r \in DOMAIN reportDocs : reportDocs[r].baseReward = DefaultReward

(* C26: a signed-out client starts no store write: once its logout has      *)
(* completed (userId null, userProfile null, userRole empty), every call of *)
(* profile setup, report submission, claim, proof submission, approve or    *)
(* reject by that client leaves every profile and every report as it was.   *)
SignedOut(c) ==
    /\ userId[c] = Null
    /\ userProfile[c] = NullProfile
    /\ userRole[c] = ""

HandlerOps == {"setup", "create", "claim", "proof", "approve", "reject"}

C26_SignedOutWritesNothing ==
    [][\A c \in Clients :
          (SignedOut(c) /\ lastOp'.client = c /\ lastOp'.op \in HandlerOps)
          => (profiles' = profiles /\ reportDocs' = reportDocs)]_vars

\* A client that had logged out submitted the setup form.
C26_Witness ==
    /\ lastOp.op = "setup"
    /\ lastOp.alerts = << >>
    /\ SignedOut(lastOp.client)
====
